---- MODULE Spec2Model ----
(***************************************************************************)
(* The item store of src/app/main.py (a FastAPI application): the          *)
(* module-level dict items_db, the counter next_id, and the four handlers  *)
(* that touch them (get_items, get_item, create_item, delete_item), driven *)
(* by clients whose requests may be in flight at the same time.            *)
(*                                                                         *)
(* A JSON value on the wire is a tagged record [t, s, n]: t is its JSON    *)
(* type ("str", "num", "null") or "absent" for a key the body leaves out;  *)
(* s carries a string and n a number.  Prices are whole numbers here: no   *)
(* handler does arithmetic on a price, only its sign and identity matter.  *)
(***************************************************************************)
EXTENDS Integers, Sequences, FiniteSets

\* ------------------------------------------------------------------ bounds

\* How many items are ever created in one run (caps next_id at MaxCreates + 1).
MaxCreates == 3

\* The clients whose requests may overlap.
Clients == {"c1", "c2"}

\* The ids a client asks for: 0, every id that can be assigned, and one beyond.
Ids == 0 .. (MaxCreates + 1)

\* ------------------------------------------------------------- JSON values

JAbsent == [t |-> "absent", s |-> "", n |-> 0]
JNull == [t |-> "null", s |-> "", n |-> 0]
JStr(x) == [t |-> "str", s |-> x, n |-> 0]
JNum(x) == [t |-> "num", s |-> "", n |-> x]

Payload(nm, pr, ds) == [name |-> nm, price |-> pr, description |-> ds]

\* The request bodies clients post.  Accepted: a full item; the same item with
\* its price as a numeric string; an item with an empty name and a negative
\* price, its description left out or null.  Rejected: one body per
\* validation rule.
Payloads ==
    { Payload(JStr("a"), JNum(2), JStr("d")),
      Payload(JStr("a"), JStr("2"), JStr("d")),
      Payload(JStr(""), JNum(-1), JAbsent),
      Payload(JStr(""), JNum(-1), JNull),
      Payload(JAbsent, JNum(2), JAbsent),
      Payload(JNum(5), JNum(2), JAbsent),
      Payload(JStr("a"), JAbsent, JAbsent),
      Payload(JStr("a"), JStr("x"), JAbsent),
      Payload(JStr("a"), JNum(2), JNum(7)) }

\* ------------------------------------------------- Item (pydantic BaseModel)

\* The strings float() parses, with the number each denotes.
NumericText == [x \in {"2", "0", "-1"} |-> CASE x = "2" -> 2 [] x = "0" -> 0 [] x = "-1" -> -1]

\* A name check that also demands a non-empty string.
NameOkNonEmpty(j) == j.t = "str" /\ j.s # ""

\* name: str -- required, and only a JSON string is a str (an empty one too).
NameOk(j) == j.t = "str"

\* price: float -- required; a JSON number, or a string that parses as one
\* (pydantic validates a request body in lax mode).  No sign check.
PriceOk(j) == j.t = "num" \/ (j.t = "str" /\ j.s \in DOMAIN NumericText)

\* description: str | None = None -- may be left out or null, else a string.
DescriptionOk(j) == j.t \in {"absent", "null", "str"}

\* Whether Item(**body) validates; FastAPI answers 422 when it does not.
ItemValid(p) == NameOk(p.name) /\ PriceOk(p.price) /\ DescriptionOk(p.description)

ToFloat(j) == IF j.t = "num" THEN j.n ELSE NumericText[j.s]

\* An Item that loses its description.
ItemWithoutDescription(p) ==
    [name |-> p.name.s, price |-> ToFloat(p.price), description |-> JNull]

\* The Item built from a body that validates.
Item(p) ==
    [name |-> p.name.s,
     price |-> ToFloat(p.price),
     description |-> IF p.description.t = "str" THEN p.description ELSE JNull]

\* ----------------------------------------------------- dict (items_db's type)
\* A Python dict keeps its keys in insertion order: a sequence of entries
\* [k, v] with distinct keys.

DictKeys(d) == {d[i].k : i \in DOMAIN d}

DictContains(d, key) == key \in DictKeys(d)

DictGet(d, key) == d[CHOOSE i \in DOMAIN d : d[i].k = key].v

\* A dict that puts a new key first.
DictSetFront(d, key, val) ==
    IF key \in {d[i].k : i \in DOMAIN d}
    THEN [i \in DOMAIN d |-> IF d[i].k = key THEN [k |-> key, v |-> val] ELSE d[i]]
    ELSE <<[k |-> key, v |-> val]>> \o d

\* d[key] = val: a present key keeps its place, a new one goes last.
DictSet(d, key, val) ==
    IF DictContains(d, key)
    THEN [i \in DOMAIN d |-> IF d[i].k = key THEN [k |-> key, v |-> val] ELSE d[i]]
    ELSE Append(d, [k |-> key, v |-> val])

\* del d[key]
DictDel(d, key) == SelectSeq(d, LAMBDA e : e.k # key)

\* list(d.values())
DictValues(d) == [i \in DOMAIN d |-> d[i].v]

\* ------------------------------------------------------------------- state

VARIABLES
    items_db,   \* the dict id -> Item
    next_id,    \* the id the next create assigns
    req,        \* per client: the request it last sent (NoReq before the first)
    resp,       \* per client: the response to req (NoResp while it is in flight)
    assigned,   \* history: the ids create_item stored under, in order
    deleted,    \* history: the ids delete_item removed
    ndeleted    \* history: how many deletes succeeded

vars == <<items_db, next_id, req, resp, assigned, deleted, ndeleted>>

NoReq == [op |-> "none"]
NoResp == [status |-> 0]

InFlight(c) == req[c].op # "none" /\ resp[c] = NoResp

Requests ==
    [op : {"create"}, payload : Payloads]
        \cup [op : {"get", "delete"}, id : Ids]
        \cup [op : {"list"}]

\* Creates that are in flight and will be stored.
PendingCreates == {c \in Clients : InFlight(c) /\ req[c].op = "create" /\ ItemValid(req[c].payload)}

\* A counter that starts at 0.
InitFromZero ==
    /\ items_db = <<>>
    /\ next_id = 0
    /\ req = [c \in Clients |-> NoReq]
    /\ resp = [c \in Clients |-> NoResp]
    /\ assigned = <<>>
    /\ deleted = {}
    /\ ndeleted = 0

Init ==
    /\ items_db = <<>>
    /\ next_id = 1
    /\ req = [c \in Clients |-> NoReq]
    /\ resp = [c \in Clients |-> NoResp]
    /\ assigned = <<>>
    /\ deleted = {}
    /\ ndeleted = 0

\* A client with no request in flight sends one.  A run stores at most
\* MaxCreates items.
Send(c) ==
    /\ ~InFlight(c)
    /\ \E r \in Requests :
        /\ (r.op = "create" /\ ItemValid(r.payload))
              => next_id + Cardinality(PendingCreates) <= MaxCreates
        /\ req' = [req EXCEPT ![c] = r]
    /\ resp' = [resp EXCEPT ![c] = NoResp]
    /\ UNCHANGED <<items_db, next_id, assigned, deleted, ndeleted>>

\* GET /items
get_items(c) ==
    /\ InFlight(c) /\ req[c].op = "list"
    /\ resp' = [resp EXCEPT ![c] = [status |-> 200, body |-> [items |-> DictValues(items_db)]]]
    /\ UNCHANGED <<items_db, next_id, req, assigned, deleted, ndeleted>>

\* GET /items/{item_id}
get_item(c) ==
    /\ InFlight(c) /\ req[c].op = "get"
    /\ LET item_id == req[c].id IN
        resp' = [resp EXCEPT ![c] =
                    IF ~DictContains(items_db, item_id)
                    THEN [status |-> 404, body |-> [detail |-> "not found", id |-> item_id]]
                    ELSE [status |-> 200, body |-> DictGet(items_db, item_id)]]
    /\ UNCHANGED <<items_db, next_id, req, assigned, deleted, ndeleted>>

\* create_item without the increment of next_id.
create_item_body_no_increment(c, item) ==
    /\ items_db' = DictSet(items_db, next_id, item)
    /\ assigned' = Append(assigned, next_id)
    /\ resp' = [resp EXCEPT ![c] = [status |-> 201, body |-> item]]
    /\ UNCHANGED <<next_id, req, deleted, ndeleted>>

\* create_item taking its id from the size of the dict, not from the counter.
create_item_body_id_from_len(c, item) ==
    /\ items_db' = DictSet(items_db, Len(items_db) + 1, item)
    /\ next_id' = next_id + 1
    /\ assigned' = Append(assigned, Len(items_db) + 1)
    /\ resp' = [resp EXCEPT ![c] = [status |-> 201, body |-> item]]
    /\ UNCHANGED <<req, deleted, ndeleted>>

\* The body of create_item, run once the request body has validated: no await
\* separates the write from the increment.
create_item_body(c, item) ==
    /\ items_db' = DictSet(items_db, next_id, item)
    /\ next_id' = next_id + 1
    /\ assigned' = Append(assigned, next_id)
    /\ resp' = [resp EXCEPT ![c] = [status |-> 201, body |-> item]]
    /\ UNCHANGED <<req, deleted, ndeleted>>

\* create_item allocating the id before the body is validated.
create_item_alloc_first(c) ==
    /\ InFlight(c) /\ req[c].op = "create"
    /\ IF ItemValid(req[c].payload)
       THEN create_item_body(c, Item(req[c].payload))
       ELSE /\ next_id' = next_id + 1
            /\ resp' = [resp EXCEPT ![c] = [status |-> 422, body |-> [detail |-> "validation"]]]
            /\ UNCHANGED <<items_db, req, assigned, deleted, ndeleted>>

\* create_item with an await between the write and the increment: the handler
\* stores the item, suspends (op "create_mid" remembers the id it wrote), and
\* increments the counter when it resumes.
create_item_suspending(c) ==
    \/ /\ InFlight(c) /\ req[c].op = "create" /\ ItemValid(req[c].payload)
       /\ items_db' = DictSet(items_db, next_id, Item(req[c].payload))
       /\ req' = [req EXCEPT ![c] = [op |-> "create_mid", payload |-> req[c].payload, id |-> next_id]]
       /\ UNCHANGED <<next_id, resp, assigned, deleted, ndeleted>>
    \/ /\ InFlight(c) /\ req[c].op = "create_mid"
       /\ next_id' = next_id + 1
       /\ assigned' = Append(assigned, req[c].id)
       /\ resp' = [resp EXCEPT ![c] = [status |-> 201, body |-> Item(req[c].payload)]]
       /\ UNCHANGED <<items_db, req, deleted, ndeleted>>
    \/ /\ InFlight(c) /\ req[c].op = "create" /\ ~ItemValid(req[c].payload)
       /\ resp' = [resp EXCEPT ![c] = [status |-> 422, body |-> [detail |-> "validation"]]]
       /\ UNCHANGED <<items_db, next_id, req, assigned, deleted, ndeleted>>

\* POST /items: FastAPI validates the body into an Item (422 on failure), then
\* calls the handler.
create_item(c) ==
    /\ InFlight(c) /\ req[c].op = "create"
    /\ IF ItemValid(req[c].payload)
       THEN create_item_body(c, Item(req[c].payload))
       ELSE /\ resp' = [resp EXCEPT ![c] = [status |-> 422, body |-> [detail |-> "validation"]]]
            /\ UNCHANGED <<items_db, next_id, req, assigned, deleted, ndeleted>>

\* delete_item handing the id back to the counter when it deletes the newest item.
delete_item_recycling(c) ==
    /\ InFlight(c) /\ req[c].op = "delete"
    /\ LET item_id == req[c].id IN
        IF ~DictContains(items_db, item_id)
        THEN /\ resp' = [resp EXCEPT ![c] = [status |-> 404, body |-> [detail |-> "not found", id |-> item_id]]]
             /\ UNCHANGED <<items_db, next_id, deleted, ndeleted>>
        ELSE /\ items_db' = DictDel(items_db, item_id)
             /\ next_id' = IF item_id = next_id - 1 THEN item_id ELSE next_id
             /\ deleted' = deleted \cup {item_id}
             /\ ndeleted' = ndeleted + 1
             /\ resp' = [resp EXCEPT ![c] = [status |-> 200, body |-> [message |-> "deleted", id |-> item_id]]]
    /\ UNCHANGED <<req, assigned>>

\* DELETE /items/{item_id}
delete_item(c) ==
    /\ InFlight(c) /\ req[c].op = "delete"
    /\ LET item_id == req[c].id IN
        IF ~DictContains(items_db, item_id)
        THEN /\ resp' = [resp EXCEPT ![c] = [status |-> 404, body |-> [detail |-> "not found", id |-> item_id]]]
             /\ UNCHANGED <<items_db, deleted, ndeleted>>
        ELSE /\ items_db' = DictDel(items_db, item_id)
             /\ deleted' = deleted \cup {item_id}
             /\ ndeleted' = ndeleted + 1
             /\ resp' = [resp EXCEPT ![c] = [status |-> 200, body |-> [message |-> "deleted", id |-> item_id]]]
    /\ UNCHANGED <<next_id, req, assigned>>

Next ==
    \E c \in Clients :
        \/ Send(c)
        \/ get_items(c)
        \/ get_item(c)
        \/ create_item(c)
        \/ delete_item(c)

Spec == Init /\ [][Next]_vars

\* ------------------------------------------------------- shared vocabulary

\* Client c's request is answered in this step.
Answered(c) == InFlight(c) /\ resp'[c] # NoResp

\* Client c holds the answer to a request of kind op.
Done(c, op) == req[c].op = op /\ resp[c] # NoResp

\* No entry that survives the step changes its value.
EntriesKept ==
    \A key \in DictKeys(items_db) \cap DictKeys(items_db') :
        DictGet(items_db', key) = DictGet(items_db, key)

\* The values of d in increasing order of id, over the ids lo .. hi.
RECURSIVE ValuesById(_, _, _)
ValuesById(d, lo, hi) ==
    IF lo > hi THEN <<>>
    ELSE (IF DictContains(d, lo) THEN <<DictGet(d, lo)>> ELSE <<>>) \o ValuesById(d, lo + 1, hi)

\* --------------------------------------------------------------------- C1
\* C1: the k-th successful create stores its item under id k (assigned ids are
\* unique, start at 1 and increase by allocation order), and the counter is
\* always 1 plus the number of successful creates so far.
C1_AllocationOrder ==
    /\ next_id = 1 + Len(assigned)
    /\ \A k \in DOMAIN assigned : assigned[k] = k
    /\ DictKeys(items_db) \subseteq {assigned[k] : k \in DOMAIN assigned}

\* Every allowed create has happened, with a delete among them.
C1_Witness == Len(assigned) = MaxCreates /\ ndeleted >= 1 /\ Len(items_db) >= 1

\* --------------------------------------------------------------------- C2
\* C2: once delete(id) has succeeded, id stays absent from the store: the
\* counter is past it and is never handed back, so no later create is assigned
\* it, and every later get(id) and delete(id) is answered 404.
C2_DeletedAbsent ==
    \A i \in deleted : ~DictContains(items_db, i) /\ i < next_id

C2_DeletedNotFound ==
    \A c \in Clients :
        (Answered(c) /\ req[c].op \in {"get", "delete"} /\ req[c].id \in deleted)
            => /\ resp'[c].status = 404
               /\ items_db' = items_db
               /\ next_id' = next_id

C2_DeletedStaysDeleted == [](C2_DeletedAbsent) /\ [][C2_DeletedNotFound]_vars

\* A repeated delete of a deleted id was answered 404 and a create came after
\* the id was assigned.
C2_Witness ==
    \E c \in Clients :
        /\ Done(c, "delete") /\ resp[c].status = 404
        /\ req[c].id \in deleted
        /\ \E key \in DictKeys(items_db) : key > req[c].id

\* --------------------------------------------------------------------- C3
\* C3: GET /items returns exactly the items now in the store, each once, in
\* the order they were created, which is the order of increasing id; on an
\* empty store it returns the empty sequence.
C3_ListStep ==
    \A c \in Clients :
        (Answered(c) /\ req[c].op = "list")
            => /\ resp'[c].status = 200
               /\ resp'[c].body.items = ValuesById(items_db, 1, next_id - 1)
               /\ Len(resp'[c].body.items) = Cardinality(DictKeys(items_db))
               /\ (items_db = <<>> => resp'[c].body.items = <<>>)

C3_ListInCreationOrder == [][C3_ListStep]_vars

\* A list shows, in that order, the first and the third item created, the
\* second one having been deleted in between.
C3_Witness ==
    \E c \in Clients :
        /\ Done(c, "list")
        /\ DictKeys(items_db) = {1, 3} /\ 2 \in deleted
        /\ resp[c].body.items = <<DictGet(items_db, 1), DictGet(items_db, 3)>>
        /\ DictGet(items_db, 1) # DictGet(items_db, 3)

\* --------------------------------------------------------------------- C4
\* C4: a create of a valid item (a text name, a numeric price, a text or
\* missing description) answers 201 with the name, price and description
\* submitted and stores that item under the id it assigns; until that id is
\* deleted get(id) answers 200 with that item, whatever happens to other ids.
C4_NativeItem(p) ==
    /\ p.name.t = "str"
    /\ p.price.t = "num"
    /\ p.description.t \in {"str", "null", "absent"}

C4_Step ==
    /\ \A c \in Clients :
        (Answered(c) /\ req[c].op = "create" /\ C4_NativeItem(req[c].payload))
            => /\ resp'[c].status = 201
               /\ resp'[c].body.name = req[c].payload.name.s
               /\ resp'[c].body.price = req[c].payload.price.n
               /\ resp'[c].body.description =
                      (IF req[c].payload.description.t = "str"
                       THEN req[c].payload.description ELSE JNull)
               /\ DictContains(items_db', next_id)
               /\ DictGet(items_db', next_id) = resp'[c].body
    /\ \A c \in Clients :
        (Answered(c) /\ req[c].op = "get" /\ DictContains(items_db, req[c].id))
            => /\ resp'[c].status = 200
               /\ resp'[c].body = DictGet(items_db, req[c].id)
    /\ EntriesKept

C4_RoundTrip == [][C4_Step]_vars

\* A get returned the item with a description while another id was deleted
\* and another item created.
C4_Witness ==
    \E c \in Clients :
        /\ Done(c, "get") /\ resp[c].status = 200
        /\ resp[c].body.description.t = "str"
        /\ ndeleted >= 1
        /\ Len(assigned) >= 2

\* --------------------------------------------------------------------- C5
\* C5: a create whose body fails validation (name missing or not text, price
\* missing or not a number nor the text of one, description neither text nor
\* null) is answered 422 and leaves the dict and the counter as they were.
C5_Fails(p) ==
    \/ p.name.t # "str"
    \/ p.price.t \in {"absent", "null"}
    \/ (p.price.t = "str" /\ p.price.s \notin {"2", "0", "-1"})
    \/ p.description.t = "num"

C5_Step ==
    \A c \in Clients :
        (Answered(c) /\ req[c].op = "create" /\ C5_Fails(req[c].payload))
            => /\ resp'[c].status = 422
               /\ items_db' = items_db
               /\ next_id' = next_id

C6_NameNonEmpty == \A i \in DOMAIN items_db : items_db[i].v.name # ""

\* C6 as amended: every stored item has a text name, which may be empty: a
\* create whose name is a string (the empty one included) and whose other
\* fields validate is answered 201 and stored under that name; only a missing
\* or non-text name is rejected.
C6_Step ==
    \A c \in Clients :
        (Answered(c) /\ req[c].op = "create")
            => IF req[c].payload.name.t = "str"
               THEN (PriceOk(req[c].payload.price) /\ DescriptionOk(req[c].payload.description))
                        => /\ resp'[c].status = 201
                           /\ DictContains(items_db', next_id)
                           /\ DictGet(items_db', next_id).name = req[c].payload.name.s
               ELSE resp'[c].status = 422 /\ items_db' = items_db

C6_NameIsText == [][C6_Step]_vars

\* An item with the empty name is in the store.
C6_Witness == \E i \in DOMAIN items_db : items_db[i].v.name = ""

\* --------------------------------------------------------------------- C7
\* C7: every stored item has a price above 0.
C7_PricePositive == \A i \in DOMAIN items_db : items_db[i].v.price > 0

\* --------------------------------------------------------------------- C8
\* C8 as stated: the answer to a successful create carries the id assigned.
C8_ResponseCarriesId ==
    \A c \in Clients :
        (Done(c, "create") /\ resp[c].status = 201) => "id" \in DOMAIN resp[c].body

\* C8 as amended: the answer to a successful create is the stored item alone
\* (name, price, description), without the id; the ids create assigns, the
\* keys it stores under, are strictly increasing integers starting at 1.
C8_AssignedIdsIncrease ==
    /\ \A c \in Clients :
        (Done(c, "create") /\ resp[c].status = 201)
            => DOMAIN resp[c].body = {"name", "price", "description"}
    /\ (assigned # <<>> => assigned[1] = 1)
    /\ \A k \in DOMAIN assigned : k > 1 => assigned[k] > assigned[k - 1]

\* A create is answered after an earlier item was deleted.
C8_Witness ==
    \E c \in Clients :
        /\ Done(c, "create") /\ resp[c].status = 201
        /\ Len(assigned) >= 2
        /\ ndeleted >= 1

\* --------------------------------------------------------------------- C9
\* C9: every id in the store lies in 1 .. next_id - 1, and a get or delete of
\* an id no create has assigned yet is answered 404 and leaves the store as
\* it was.
C9_KeysBelowCounter == \A key \in DictKeys(items_db) : 1 <= key /\ key < next_id

C9_UnassignedStep ==
    \A c \in Clients :
        (Answered(c) /\ req[c].op \in {"get", "delete"} /\ ~(1 <= req[c].id /\ req[c].id < next_id))
            => /\ resp'[c].status = 404
               /\ items_db' = items_db
               /\ next_id' = next_id

C9_UnassignedNotFound == [](C9_KeysBelowCounter) /\ [][C9_UnassignedStep]_vars

\* A delete of an id at or past the counter was answered 404 on a store that
\* holds items.
C9_Witness ==
    \E c \in Clients :
        /\ Done(c, "delete") /\ resp[c].status = 404
        /\ req[c].id >= next_id
        /\ Len(items_db) >= 1

\* -------------------------------------------------------------------- C10
\* C10: with requests of several clients in flight at once, each handler runs
\* its store accesses in one piece, so no two creates are assigned the same
\* id, no stored item is overwritten, and the number of stored items is the
\* number of successful creates minus the number of successful deletes.
C10_Counts ==
    /\ \A j, k \in DOMAIN assigned : j # k => assigned[j] # assigned[k]
    /\ Len(items_db) = Len(assigned) - ndeleted
    /\ \A i, j \in DOMAIN items_db : i # j => items_db[i].k # items_db[j].k

C10_Step ==
    /\ EntriesKept
    /\ Len(assigned') > Len(assigned) =>
          /\ ~DictContains(items_db, assigned'[Len(assigned')])
          /\ Len(items_db') = Len(items_db) + 1

C10_NoLostUpdate == [](C10_Counts) /\ [][C10_Step]_vars

\* Two creates are in flight together while the store already has a history
\* of a create and a delete.
C10_Witness ==
    /\ \A c \in Clients : InFlight(c) /\ req[c].op = "create" /\ ItemValid(req[c].payload)
    /\ Len(assigned) >= 1
    /\ ndeleted >= 1

====
